---- MODULE Spec2Model ----
(***************************************************************************)
(* logkit: the context tag registry (package fctx) and the leveled logger  *)
(* (package logger) as one state machine.                                  *)
(*                                                                         *)
(* Three specifications share the variables:                               *)
(*   SpecReg     - concurrent callers of fctx.Init racing on the           *)
(*                 sync.Once, and tag extraction from request contexts;    *)
(*   SpecDefault - Init and AddDefaultKeyvals replacing the process-wide   *)
(*                 default Leveler, and what is logged through it;         *)
(*   Spec        - Leveler values forked from the default one, records     *)
(*                 emitted through them, and both LogError entry points.   *)
(***************************************************************************)
EXTENDS Integers, Sequences, FiniteSets, TLC

\* ------------------------------------------------------------------ bounds
\* goroutines that may call fctx.Init concurrently
NumProcs == 2
\* Leveler values kept by callers (results of With / WithCustomDepth / WithContext)
MaxHeld == 2
\* AddDefaultKeyvals calls since the last logger Init
MaxAdds == 1

\* --------------------------------------------------------- fctx constants
ReqUnset == 0
ReqEndpoint == 1
ReqAuth == 2
SvcUnset == 0

\* a SvcKey other than SvcUnset: no constant of the package names one, but
\* SvcKey is an int and a context may hold keys built from any of them
SvcOther == 1

VARIABLES
    \* package fctx
    svc,          \* var svc SvcKey
    onceDone,     \* once.done
    onceM,        \* once.m: 0 when free, else the goroutine holding it
    pc,           \* where each goroutine is inside Init / once.Do
    initArg,      \* the service name each goroutine passed to Init
    initF,        \* the value the closure each goroutine handed to once.Do assigns
    svcWrites,    \* how many times a once.Do closure has assigned svc
    firstWrite,   \* the value assigned by the first such closure
    initReturned, \* some Init call has returned
    lastTags,     \* the last MetricsTagsFromContext / LogTagsFromContext call
    \* package logger
    defaultLevels,
    defaultFormat,
    stdlibOutput, \* the log.Logger behind the adapter given to stdlog.SetOutput
    held,         \* Leveler values callers hold
    adds,         \* AddDefaultKeyvals calls by callers since the last Init
    last,         \* the last logger call: its arguments, result and record
    panicked      \* Init panicked on an invalid format

regVars == <<svc, onceDone, onceM, pc, initArg, initF, svcWrites, firstWrite,
             initReturned, lastTags>>
logVars == <<defaultLevels, defaultFormat, stdlibOutput, held, adds, last, panicked>>
vars == <<svc, onceDone, onceM, pc, initArg, initF, svcWrites, firstWrite,
          initReturned, lastTags,
          defaultLevels, defaultFormat, stdlibOutput, held, adds, last, panicked>>

Procs == 1..NumProcs
Names == {"svcA", "svcB"}

\* ------------------------------------------------------------ values
\* interface{} values that travel as keyvals: strings, errors, go-kit Valuers,
\* the values Valuers resolve to, and go-kit's ErrMissingValue
S(x) == [kind |-> "str", name |-> x, depth |-> 0]
I(x) == [kind |-> "int", name |-> x, depth |-> 0]
E(x) == [kind |-> "err", name |-> x, depth |-> 0]
Valuer(n, d) == [kind |-> "valuer", name |-> n, depth |-> d]
ErrMissingValue == [kind |-> "missing", name |-> "(MISSING)", depth |-> 0]

\* ============================================================ package fctx

\* the map, had it an entry for a service
serviceNameToSvcKeyKnown == [n \in {"svcA"} |-> SvcOther]

\* var serviceNameToSvcKey = map[string]SvcKey{}
serviceNameToSvcKey == [n \in {} |-> SvcUnset]

CtxKey(s, r) == [SvcKey |-> s, ReqKey |-> r]

\* func NewContextKey(reqKey ReqKey) CtxKey
NewContextKey(reqKey) == CtxKey(svc, reqKey)

\* var selectedTags = map[string]ReqKey{"endpoint": ReqEndpoint}
selectedTags == << [tagname |-> "endpoint", tagkey |-> ReqEndpoint] >>

\* request contexts: under the endpoint key of each service nothing, a
\* string or a non-string
StoredValues == {S("GetUser"), I("42")}
Contexts ==
    UNION { [D -> StoredValues] : D \in SUBSET { CtxKey(SvcUnset, ReqEndpoint),
                                                 CtxKey(SvcOther, ReqEndpoint) } }

Nil == [kind |-> "nil", name |-> "nil", depth |-> 0]

\* ctx.Value(key)
CtxValue(ctx, key) == IF key \in DOMAIN ctx THEN ctx[key] ELSE Nil

\* the iteration without its look at svc
TagOfIgnoringSvc(ctx, t) ==
    LET val == CtxValue(ctx, NewContextKey(t.tagkey)) IN
    IF val = Nil THEN [panic |-> FALSE, tags |-> <<t.tagname, "unset">>]
    ELSE IF val.kind = "str"
         THEN [panic |-> FALSE, tags |-> <<t.tagname, val.name>>]
         ELSE [panic |-> TRUE, tags |-> <<t.tagname>>]

\* one iteration of the loop of MetricsTagsFromContext: the strings appended
\* for one selected tag, or a panic when val.(string) fails
TagOf(ctx, t) ==
    IF svc = SvcUnset
    THEN [panic |-> FALSE, tags |-> <<t.tagname, "svc_unset">>]
    ELSE LET val == CtxValue(ctx, NewContextKey(t.tagkey)) IN
         IF val = Nil THEN [panic |-> FALSE, tags |-> <<t.tagname, "unset">>]
         ELSE IF val.kind = "str"
              THEN [panic |-> FALSE, tags |-> <<t.tagname, val.name>>]
              ELSE [panic |-> TRUE, tags |-> <<t.tagname>>]

RECURSIVE TagsFrom(_, _)
TagsFrom(ctx, i) ==
    IF i > Len(selectedTags) THEN [panic |-> FALSE, tags |-> <<>>]
    ELSE LET one == TagOf(ctx, selectedTags[i]) IN
         IF one.panic THEN one
         ELSE LET rest == TagsFrom(ctx, i + 1) IN
              [panic |-> rest.panic, tags |-> one.tags \o rest.tags]

\* func MetricsTagsFromContext(ctx context.Context) []string
MetricsTagsFromContext(ctx) == TagsFrom(ctx, 1)

\* func LogTagsFromContext(ctx context.Context) []interface{}
LogTagsFromContext(ctx) ==
    LET m == MetricsTagsFromContext(ctx) IN
    [panic |-> m.panic, tags |-> [i \in 1..Len(m.tags) |-> S(m.tags[i])]]

\* a call's record: written and inited tell whether a once.Do closure had
\* assigned svc, and whether an Init call had returned, when it was made
NoTags == [op |-> "none", ctx |-> <<>>, panic |-> FALSE, tags |-> <<>>,
           written |-> FALSE, inited |-> FALSE]

\* ---- Init(service), one step per shared-memory access of once.Do

\* lines 54-58: the map lookup picks the closure handed to once.Do
InitCall(p, name) ==
    /\ pc[p] = "idle"
    /\ pc' = [pc EXCEPT ![p] = "do"]
    /\ initArg' = [initArg EXCEPT ![p] = name]
    /\ initF' = [initF EXCEPT ![p] =
                    IF name \in DOMAIN serviceNameToSvcKey
                    THEN serviceNameToSvcKey[name] ELSE SvcUnset]
    /\ UNCHANGED <<svc, onceDone, onceM, svcWrites, firstWrite, initReturned, lastTags>>
    /\ UNCHANGED logVars

\* once.Do: if o.done.Load() == 0 { o.doSlow(f) }
OnceDo(p) ==
    /\ pc[p] = "do"
    /\ IF onceDone
       THEN /\ pc' = [pc EXCEPT ![p] = "idle"]
            /\ initReturned' = TRUE
       ELSE /\ pc' = [pc EXCEPT ![p] = "lock"]
            /\ UNCHANGED initReturned
    /\ UNCHANGED <<svc, onceDone, onceM, initArg, initF, svcWrites, firstWrite, lastTags>>
    /\ UNCHANGED logVars

\* doSlow: o.m.Lock()
OnceLock(p) ==
    /\ pc[p] = "lock"
    /\ onceM = 0
    /\ onceM' = p
    /\ pc' = [pc EXCEPT ![p] = "check"]
    /\ UNCHANGED <<svc, onceDone, initArg, initF, svcWrites, firstWrite,
                   initReturned, lastTags>>
    /\ UNCHANGED logVars

\* doSlow without the second look at done
OnceCheckNoRecheck(p) ==
    /\ pc[p] = "check"
    /\ pc' = [pc EXCEPT ![p] = "run"]
    /\ UNCHANGED <<svc, onceDone, onceM, initArg, initF, svcWrites, firstWrite,
                   initReturned, lastTags>>
    /\ UNCHANGED logVars

\* doSlow: if o.done.Load() == 0 { defer o.done.Store(1); f() }
OnceCheck(p) ==
    /\ pc[p] = "check"
    /\ pc' = [pc EXCEPT ![p] = IF onceDone THEN "unlock" ELSE "run"]
    /\ UNCHANGED <<svc, onceDone, onceM, initArg, initF, svcWrites, firstWrite,
                   initReturned, lastTags>>
    /\ UNCHANGED logVars

\* f(): func() { svc = svcKey } or func() { svc = SvcUnset }
OnceRun(p) ==
    /\ pc[p] = "run"
    /\ svc' = initF[p]
    /\ svcWrites' = svcWrites + 1
    /\ firstWrite' = IF svcWrites = 0 THEN [by |-> p, val |-> initF[p]] ELSE firstWrite
    /\ pc' = [pc EXCEPT ![p] = "store"]
    /\ UNCHANGED <<onceDone, onceM, initArg, initF, initReturned, lastTags>>
    /\ UNCHANGED logVars

\* the deferred o.done.Store(1)
OnceStore(p) ==
    /\ pc[p] = "store"
    /\ onceDone' = TRUE
    /\ pc' = [pc EXCEPT ![p] = "unlock"]
    /\ UNCHANGED <<svc, onceM, initArg, initF, svcWrites, firstWrite,
                   initReturned, lastTags>>
    /\ UNCHANGED logVars

\* the deferred o.m.Unlock(), and Init returns
OnceUnlock(p) ==
    /\ pc[p] = "unlock"
    /\ onceM' = 0
    /\ pc' = [pc EXCEPT ![p] = "idle"]
    /\ initReturned' = TRUE
    /\ UNCHANGED <<svc, onceDone, initArg, initF, svcWrites, firstWrite, lastTags>>
    /\ UNCHANGED logVars

\* a caller extracts metric tags from a request context
MetricsTags(ctx) ==
    /\ LET r == MetricsTagsFromContext(ctx) IN
       lastTags' = [op |-> "metrics", ctx |-> ctx, panic |-> r.panic,
                    tags |-> r.tags, written |-> svcWrites > 0,
                    inited |-> initReturned]
    /\ UNCHANGED <<svc, onceDone, onceM, pc, initArg, initF, svcWrites, firstWrite,
                   initReturned>>
    /\ UNCHANGED logVars

\* a caller extracts log tags from a request context
LogTags(ctx) ==
    /\ LET r == LogTagsFromContext(ctx) IN
       lastTags' = [op |-> "log", ctx |-> ctx, panic |-> r.panic,
                    tags |-> r.tags, written |-> svcWrites > 0,
                    inited |-> initReturned]
    /\ UNCHANGED <<svc, onceDone, onceM, pc, initArg, initF, svcWrites, firstWrite,
                   initReturned>>
    /\ UNCHANGED logVars

RegInit ==
    /\ svc = SvcUnset
    /\ onceDone = FALSE
    /\ onceM = 0
    /\ pc = [p \in Procs |-> "idle"]
    /\ initArg = [p \in Procs |-> ""]
    /\ initF = [p \in Procs |-> SvcUnset]
    /\ svcWrites = 0
    /\ firstWrite = [by |-> 0, val |-> SvcUnset]
    /\ initReturned = FALSE
    /\ lastTags = NoTags

\* ========================================================== package logger

NominalStackDepth == 3

Formats == {"logfmt", "json", "nop"}
\* a LogFormat outside the three constants
InvalidFormat == "invalid"
Levels == {"debug", "info", "warn", "error"}
Errs == {"e1", "e2"}

\* keyvals callers pass to With*, LogError and AddDefaultKeyvals: a pair and
\* a lone key; AddDefaultKeyvals also a pair that names the function key
KVArgs == { <<S("k"), S("v")>>, <<S("k")>> }
DefaultKVArgs == KVArgs \cup { <<S("function"), S("f")>> }
\* keyvals callers pass to Log
LogArgs == { <<S("msg"), S("m")>> }

\* ---- go-kit log: contexts over a sink

\* go-kit pads an odd keyvals list with ErrMissingValue
PadKV(kvs) == IF Len(kvs) % 2 # 0 THEN Append(kvs, ErrMissingValue) ELSE kvs

\* log.With putting the new keyvals in front of the old ones
LogWithPrepend(l, keyvals) ==
    IF Len(keyvals) = 0 THEN l
    ELSE [l EXCEPT !.keyvals = PadKV(keyvals) \o l.keyvals]

\* log.With(logger, keyvals...): the logger's keyvals with the given ones
\* appended, in a slice of its own
LogWith(l, keyvals) ==
    IF Len(keyvals) = 0 THEN l
    ELSE [l EXCEPT !.keyvals = PadKV(l.keyvals \o keyvals)]

\* log.WithPrefix(logger, keyvals...), which the level package uses
LogWithPrefix(l, keyvals) ==
    IF Len(keyvals) = 0 THEN l
    ELSE [l EXCEPT !.keyvals = PadKV(keyvals) \o l.keyvals]

\* what a Valuer yields when the record is emitted: the timestamp, or the
\* frame `depth` above the Valuer formatted as file:line (%+v) or name (%n)
Resolve(v) ==
    IF v.kind # "valuer" THEN v
    ELSE IF v.name = "timestamp" THEN [kind |-> "time", name |-> "utc", depth |-> 0]
    ELSE [kind |-> "frame", name |-> v.name, depth |-> v.depth]

\* bindValues: the Valuers in value position are replaced by what they yield
BindValues(kvs) ==
    [i \in 1..Len(kvs) |-> IF i % 2 = 0 THEN Resolve(kvs[i]) ELSE kvs[i]]

\* (*context).Log(keyvals...): the record handed to the sink
ContextLog(l, keyvals) ==
    BindValues(l.keyvals) \o
    (IF (Len(l.keyvals) + Len(keyvals)) % 2 # 0
     THEN Append(keyvals, ErrMissingValue) ELSE keyvals)

\* what the sink's Log can return: the discard sink never fails, a write to
\* os.Stdout can
SinkResults(l) == IF l.sink = "nop" THEN {"nil"} ELSE {"nil", "write_error"}

\* ---- helpers (lines 194-210)
caller(depth) == Valuer("caller", depth)
function(depth) == Valuer("function", depth)
DefaultTimestampUTC == Valuer("timestamp", 0)

\* ---- type levels

\* levels{l} over a fresh sink of the given format
NewLevels(format) == [sink |-> format, keyvals |-> <<>>]

LevelsLevel(l, lvl) == LogWithPrefix(l, <<S("level"), S(lvl)>>)
LevelsInfo(l) == LevelsLevel(l, "info")
LevelsError(l) == LevelsLevel(l, "error")

\* func (l levels) With(keyvals ...interface{}) Leveler
LevelsWith(l, keyvals) == LogWith(l, keyvals)

\* func (l levels) WithCustomDepth(depth int, keyvals ...interface{}) Leveler
LevelsWithCustomDepth(l, depth, keyvals) ==
    LevelsWith(LevelsWith(l, <<S("caller"), caller(depth),
                               S("function"), function(depth)>>), keyvals)

\* func (l levels) WithContext(ctx context.Context) Leveler
LevelsWithContext(l, ctx) ==
    LevelsWithCustomDepth(l, NominalStackDepth + 2, LogTagsFromContext(ctx).tags)

\* package-level LogError without the frame of the helper itself
LogErrorRecordNominal(l, err, keyvals) ==
    ContextLog(LevelsError(LevelsWithCustomDepth(l, NominalStackDepth, keyvals)),
               <<S("err"), E(err)>>)

\* func LogError(err error, keyvals ...interface{}) error: the record it logs
\* through the default Leveler l
LogErrorRecord(l, err, keyvals) ==
    ContextLog(LevelsError(LevelsWithCustomDepth(l, NominalStackDepth + 1, keyvals)),
               <<S("err"), E(err)>>)

\* func (l levels) LogError(err error, keyvals ...interface{}) error: the
\* record it logs
LevelsLogErrorRecord(l, err, keyvals) ==
    ContextLog(LevelsError(LevelsWithCustomDepth(l, NominalStackDepth + 2, keyvals)),
               <<S("err"), E(err)>>)

\* the three baseline keyvals Init installs
Baseline == << S("timestamp"), DefaultTimestampUTC,
               S("file"), caller(NominalStackDepth),
               S("function"), function(NominalStackDepth) >>

StdlibMarker == <<S("function"), S("stdlibLoggerRedirect")>>

\* the adapter AddDefaultKeyvals builds, were it built from the Leveler as it
\* was before the new keyvals
StdlibLoggerOfLagging(old, new) == LevelsInfo(LevelsWith(old, StdlibMarker))

\* log.NewStdlibAdapter(defaultLevels.With("function", "stdlibLoggerRedirect").Info())
StdlibLoggerOf(old, new) == LevelsInfo(LevelsWith(new, StdlibMarker))

\* a call's record: the Leveler it was made on (src), its arguments, what it
\* returned (ret), the record handed to the sink (rec) and, for Init, the
\* keyvals of the default Leveler it replaced (prev)
NoCall == [op |-> "none", src |-> 0, format |-> "", level |-> "", err |-> "",
           kv |-> <<>>, ret |-> "", rec |-> <<>>, prev |-> <<>>]

\* ---- the process-wide default Leveler

\* Init rebuilding the default Leveler on top of the one it replaces
InitLevelsKeeping(old, format) == [old EXCEPT !.sink = format]

\* lines 44-56: defaultLevels = levels{l}, l a new logger of the format
InitLevels(old, format) == NewLevels(format)

\* the body of AddDefaultKeyvals on the default Leveler dl: the new default
\* Leveler and the logger the stdlib redirection is pointed at
AddDefaultKeyvalsTo(dl, keyvals) ==
    LET new == LevelsWith(dl, keyvals) IN
    [defaultLevels |-> new, stdlibOutput |-> StdlibLoggerOf(dl, new)]

\* func Init(format LogFormat), a recognized format
Init(format) ==
    /\ ~panicked
    /\ LET r == AddDefaultKeyvalsTo(InitLevels(defaultLevels, format), Baseline) IN
       /\ defaultLevels' = r.defaultLevels
       /\ stdlibOutput' = r.stdlibOutput
    /\ defaultFormat' = format
    /\ adds' = 0
    /\ last' = [NoCall EXCEPT !.op = "Init", !.format = format,
                              !.prev = defaultLevels.keyvals]
    /\ UNCHANGED <<held, panicked>>
    /\ UNCHANGED regVars

\* func Init(format LogFormat), the default branch of the switch
InitInvalid ==
    /\ ~panicked
    /\ panicked' = TRUE
    /\ last' = [NoCall EXCEPT !.op = "Init", !.format = InvalidFormat]
    /\ UNCHANGED <<defaultLevels, defaultFormat, stdlibOutput, held, adds>>
    /\ UNCHANGED regVars

\* func AddDefaultKeyvals(keyvals ...interface{})
AddDefaultKeyvals(keyvals) ==
    /\ ~panicked
    /\ adds < MaxAdds
    /\ LET r == AddDefaultKeyvalsTo(defaultLevels, keyvals) IN
       /\ defaultLevels' = r.defaultLevels
       /\ stdlibOutput' = r.stdlibOutput
    /\ adds' = adds + 1
    /\ last' = [NoCall EXCEPT !.op = "AddDefaultKeyvals", !.kv = keyvals]
    /\ UNCHANGED <<defaultFormat, held, panicked>>
    /\ UNCHANGED regVars

\* a line written through the standard library's log package reaches the
\* logger given to the adapter as a message
StdlibPrint ==
    /\ ~panicked
    /\ \E r \in SinkResults(stdlibOutput) :
         last' = [NoCall EXCEPT !.op = "stdlog", !.ret = r,
                    !.rec = ContextLog(stdlibOutput, <<S("msg"), S("m")>>)]
    /\ UNCHANGED <<defaultLevels, defaultFormat, stdlibOutput, held, adds, panicked>>
    /\ UNCHANGED regVars

\* ---- Leveler values in the hands of callers
\* lv: the value; parent, root, calls, plain: where it came from (the
\* Leveler it was forked from, the keyvals of the Leveler the chain started
\* from, the keyvals of each call since, and whether every call was With)
Child(i, parent, lv, keyvals, isWith) ==
    [lv |-> lv, parent |-> i, root |-> parent.root,
     calls |-> Append(parent.calls, keyvals), plain |-> parent.plain /\ isWith]
DefaultEntry == [lv |-> defaultLevels, parent |-> 0, root |-> defaultLevels.keyvals,
                 calls |-> <<>>, plain |-> TRUE]
\* the Leveler a call is made on: 0 is the default one (the package-level
\* functions), i > 0 one a caller holds
Entry(i) == IF i = 0 THEN DefaultEntry ELSE held[i]
Sources == 0..Len(held)
\* the depth a wrapper one frame above the caller passes
Depths == {NominalStackDepth + 1}

\* With that also overwrites the Leveler it was called on
WithInPlace(i, keyvals) ==
    /\ ~panicked
    /\ Len(held) < MaxHeld
    /\ LET c == Child(i, Entry(i), LevelsWith(Entry(i).lv, keyvals), keyvals, TRUE) IN
       IF i = 0
       THEN /\ held' = Append(held, c)
            /\ defaultLevels' = c.lv
       ELSE /\ held' = Append([held EXCEPT ![i].lv = c.lv], c)
            /\ UNCHANGED defaultLevels
    /\ UNCHANGED <<defaultFormat, stdlibOutput, adds, last, panicked>>
    /\ UNCHANGED regVars

\* With(keyvals...) on Leveler i; the caller keeps the result
With(i, keyvals) ==
    /\ ~panicked
    /\ Len(held) < MaxHeld
    /\ held' = Append(held, Child(i, Entry(i), LevelsWith(Entry(i).lv, keyvals),
                                  keyvals, TRUE))
    /\ UNCHANGED <<defaultLevels, defaultFormat, stdlibOutput, adds, last, panicked>>
    /\ UNCHANGED regVars

\* WithCustomDepth(depth, keyvals...) on Leveler i
WithCustomDepth(i, depth, keyvals) ==
    /\ ~panicked
    /\ Len(held) < MaxHeld
    /\ held' = Append(held, Child(i, Entry(i),
                                  LevelsWithCustomDepth(Entry(i).lv, depth, keyvals),
                                  keyvals, FALSE))
    /\ UNCHANGED <<defaultLevels, defaultFormat, stdlibOutput, adds, last, panicked>>
    /\ UNCHANGED regVars

\* WithContext(ctx) on Leveler i
WithContext(i, ctx) ==
    /\ ~panicked
    /\ Len(held) < MaxHeld
    /\ ~LogTagsFromContext(ctx).panic
    /\ held' = Append(held, Child(i, Entry(i), LevelsWithContext(Entry(i).lv, ctx),
                                  LogTagsFromContext(ctx).tags, FALSE))
    /\ UNCHANGED <<defaultLevels, defaultFormat, stdlibOutput, adds, last, panicked>>
    /\ UNCHANGED regVars

\* Info() / Debug() / Warn() / Error() on Leveler i, then Log(keyvals...);
\* the caller drops what Log returns
Log(i, lvl, keyvals) ==
    /\ ~panicked
    /\ last' = [NoCall EXCEPT !.op = "Log", !.src = i, !.level = lvl,
                  !.kv = keyvals,
                  !.rec = ContextLog(LevelsLevel(Entry(i).lv, lvl), keyvals)]
    /\ UNCHANGED <<defaultLevels, defaultFormat, stdlibOutput, held, adds, panicked>>
    /\ UNCHANGED regVars

\* the package-level LogError(err, keyvals...)
LogError(err, keyvals) ==
    /\ ~panicked
    /\ LET rec == LogErrorRecord(defaultLevels, err, keyvals) IN
       \E r \in SinkResults(defaultLevels) :
         last' = [NoCall EXCEPT !.op = "LogError", !.level = "error",
                    !.err = err, !.kv = keyvals, !.ret = r, !.rec = rec]
    /\ UNCHANGED <<defaultLevels, defaultFormat, stdlibOutput, held, adds, panicked>>
    /\ UNCHANGED regVars

\* LogError(err, keyvals...) on a Leveler value a caller holds
LevelsLogError(i, err, keyvals) ==
    /\ ~panicked
    /\ LET rec == LevelsLogErrorRecord(held[i].lv, err, keyvals) IN
       \E r \in SinkResults(held[i].lv) :
         last' = [NoCall EXCEPT !.op = "levels.LogError", !.src = i,
                    !.level = "error", !.err = err, !.kv = keyvals, !.ret = r,
                    !.rec = rec]
    /\ UNCHANGED <<defaultLevels, defaultFormat, stdlibOutput, held, adds, panicked>>
    /\ UNCHANGED regVars

\* func init(): Init(defaultFormat) with defaultFormat = FormatJson
LogInit ==
    /\ defaultFormat = "json"
    /\ LET r == AddDefaultKeyvalsTo(InitLevels(NewLevels("json"), "json"), Baseline) IN
       /\ defaultLevels = r.defaultLevels
       /\ stdlibOutput = r.stdlibOutput
    /\ held = <<>>
    /\ adds = 0
    /\ last = [NoCall EXCEPT !.op = "Init", !.format = "json"]
    /\ panicked = FALSE

ModelInit == RegInit /\ LogInit

RegNext ==
    \/ \E p \in Procs, name \in Names : InitCall(p, name)
    \/ \E p \in Procs : OnceDo(p)
    \/ \E p \in Procs : OnceLock(p)
    \/ \E p \in Procs : OnceCheck(p)
    \/ \E p \in Procs : OnceRun(p)
    \/ \E p \in Procs : OnceStore(p)
    \/ \E p \in Procs : OnceUnlock(p)
    \/ \E ctx \in Contexts : MetricsTags(ctx)
    \/ \E ctx \in Contexts : LogTags(ctx)

\* the calls that configure the process-wide default Leveler, and what is
\* logged through it
DefaultNext ==
    \/ \E f \in Formats : Init(f)
    \/ InitInvalid
    \/ \E kv \in DefaultKVArgs : AddDefaultKeyvals(kv)
    \/ StdlibPrint
    \/ \E lvl \in Levels, kv \in LogArgs : Log(0, lvl, kv)
    \/ \E e \in Errs, kv \in KVArgs : LogError(e, kv)

\* the calls on Leveler values: forking them and logging through them
LevelerNext ==
    \/ \E i \in Sources, kv \in KVArgs : With(i, kv)
    \/ \E i \in Sources, d \in Depths, kv \in KVArgs : WithCustomDepth(i, d, kv)
    \/ \E i \in Sources, ctx \in Contexts : WithContext(i, ctx)
    \/ \E i \in Sources, lvl \in Levels, kv \in LogArgs : Log(i, lvl, kv)
    \/ \E e \in Errs, kv \in KVArgs : LogError(e, kv)
    \/ \E i \in 1..Len(held), e \in Errs, kv \in KVArgs : LevelsLogError(i, e, kv)

SpecReg == ModelInit /\ [][RegNext]_vars
SpecDefault == ModelInit /\ [][DefaultNext]_vars
Spec == ModelInit /\ [][LevelerNext]_vars

\* ================================================================= claims

\* the keyvals of a chain of calls laid end to end, as they were passed
RECURSIVE Flat(_)
Flat(calls) == IF calls = <<>> THEN <<>> ELSE Head(calls) \o Flat(Tail(calls))

\* the same, a call that passed an odd number of keyvals followed by one
\* missing-value placeholder
RECURSIVE FlatPadded(_)
FlatPadded(calls) ==
    IF calls = <<>> THEN <<>>
    ELSE LET c == Head(calls) IN
         (IF Len(c) % 2 = 1 THEN c \o <<ErrMissingValue>> ELSE c)
         \o FlatPadded(Tail(calls))

\* a Valuer as it shows in a record
Shown(v) ==
    IF v.kind = "valuer"
    THEN (IF v.name = "timestamp"
          THEN [kind |-> "time", name |-> "utc", depth |-> 0]
          ELSE [v EXCEPT !.kind = "frame"])
    ELSE v
ShownAll(kvs) == [i \in 1..Len(kvs) |-> Shown(kvs[i])]

\* the part of the last record between the level pair and the keyvals of
\* the Log call itself: what the Leveler carried
Carried == SubSeq(last.rec, 3, Len(last.rec) - Len(last.kv))

LogErrorOps == {"LogError", "levels.LogError"}

\* C1: LogError returns the very error it was given, through the package-level
\* function and through the method, whatever the sink's write returns.
C1_LogErrorReturnsErr ==
    last.op \in LogErrorOps => last.ret = last.err

\* C2 (as stated): the record emitted through the last Leveler of a chain of
\* With calls carries the root's keyvals followed by every call's keyvals, in
\* call order, and nothing else.
C2_ChainIsConcatenation ==
    (last.op = "Log" /\ Entry(last.src).plain)
        => Carried = ShownAll(Entry(last.src).root \o Flat(Entry(last.src).calls))

\* C2 (amended): the record carries the root's keyvals followed by every
\* call's keyvals in call order, each call that passed an odd number of
\* keyvals followed by one missing-value placeholder.
C2_ChainIsPaddedConcatenation ==
    (last.op = "Log" /\ Entry(last.src).plain)
        => /\ Carried = ShownAll(Entry(last.src).root
                                   \o FlatPadded(Entry(last.src).calls))
           /\ SubSeq(last.rec, 1, 2) = <<S("level"), S(last.level)>>
           /\ SubSeq(last.rec, Len(last.rec) - Len(last.kv) + 1, Len(last.rec))
                = last.kv

\* a record emitted through the second Leveler of a chain of two different
\* With calls, one of them with an odd number of keyvals
C2_Witness ==
    /\ last.op = "Log"
    /\ last.src > 0
    /\ Entry(last.src).plain
    /\ Len(Entry(last.src).calls) = 2
    /\ Entry(last.src).calls[1] = <<S("k")>>
    /\ Entry(last.src).calls[2] = <<S("k"), S("v")>>

C4_FirstCallWins ==
    /\ svcWrites <= 1
    /\ svcWrites = 1 => svc = firstWrite.val
    /\ svcWrites = 0 => svc = SvcUnset
    /\ initReturned => (svcWrites = 1 /\ onceDone)

\* two Init calls with different names have both returned
C4_Witness ==
    /\ \A p \in Procs : pc[p] = "idle"
    /\ initArg[1] = "svcA"
    /\ initArg[2] = "svcB"
    /\ svcWrites = 1

\* the value of tag k in the result of the last extraction, as a string
TagValue(k) ==
    IF lastTags.op = "log" THEN lastTags.tags[2 * k].name ELSE lastTags.tags[2 * k]
TagName(k) ==
    IF lastTags.op = "log" THEN lastTags.tags[2 * k - 1].name
    ELSE lastTags.tags[2 * k - 1]
\* what the context of the last extraction holds for tag k under the key
\* NewContextKey builds
StoredFor(k) == CtxValue(lastTags.ctx, NewContextKey(selectedTags[k].tagkey))

\* C5: while no Init call has assigned the service identity, every selected
\* tag comes back as its name followed by "svc_unset", whatever the context
\* holds.
C5_UninitializedYieldsSvcUnset ==
    (lastTags.op # "none" /\ ~lastTags.written)
        => /\ ~lastTags.panic
           /\ Len(lastTags.tags) = 2 * Len(selectedTags)
           /\ \A k \in 1..Len(selectedTags) :
                /\ TagName(k) = selectedTags[k].tagname
                /\ TagValue(k) = "svc_unset"

\* an extraction before any Init from a context that holds "GetUser" under
\* the endpoint key
C5_Witness ==
    /\ lastTags.op = "metrics"
    /\ ~lastTags.written
    /\ StoredFor(1) = S("GetUser")

\* C6: after an Init call has returned, each selected tag is resolved from
\* the context: "unset" with nothing stored under the key NewContextKey
\* builds, the stored string otherwise, never "svc_unset".
C6_InitializedResolvesFromContext ==
    (lastTags.op = "metrics" /\ lastTags.inited /\ ~lastTags.panic)
        => \A k \in 1..Len(selectedTags) :
             /\ StoredFor(k) = Nil => TagValue(k) = "unset"
             /\ StoredFor(k).kind = "str" => TagValue(k) = StoredFor(k).name

\* C7: no extraction panics, and a tag with nothing stored under its key
\* comes back as a sentinel string.
C7_RegistryNeverPanics ==
    /\ ~lastTags.panic
    /\ lastTags.op # "none"
         => \A k \in 1..Len(selectedTags) :
              StoredFor(k) = Nil => TagValue(k) \in {"svc_unset", "unset"}

\* an extraction, after an Init call returned, from a context that holds a
\* non-string under the endpoint key
C7_Witness ==
    /\ lastTags.op # "none"
    /\ lastTags.inited
    /\ StoredFor(1) = I("42")
    /\ ~lastTags.panic

\* C8: right after Init(format) with a recognized format the default Leveler
\* carries exactly the three baseline keyvals over a sink of that format.
C8_InitIsDestructive ==
    (last.op = "Init" /\ last.format \in Formats)
        => /\ defaultLevels.keyvals =
                << S("timestamp"), Valuer("timestamp", 0),
                   S("file"), Valuer("caller", NominalStackDepth),
                   S("function"), Valuer("function", NominalStackDepth) >>
           /\ defaultLevels.sink = last.format
           /\ defaultFormat = last.format

\* Init has just replaced a default Leveler that carried added keyvals
C8_Witness ==
    /\ last.op = "Init"
    /\ last.format \in Formats
    /\ Len(last.prev) > Len(Baseline)

\* the value a record's reader sees for a key: the last one
RECURSIVE LastValue(_, _)
LastValue(kvs, key) ==
    IF Len(kvs) < 2 THEN Nil
    ELSE IF kvs[Len(kvs) - 1] = key THEN kvs[Len(kvs)]
    ELSE LastValue(SubSeq(kvs, 1, Len(kvs) - 2), key)

\* C9: the logger behind the standard-library redirection is the Info-level
\* emitter of the current default Leveler with function = the marker as its
\* last keyval, and the marker is the value of the function key in every
\* redirected record.
C9_StdlibFollowsDefault ==
    /\ stdlibOutput.sink = defaultLevels.sink
    /\ stdlibOutput.keyvals =
         <<S("level"), S("info")>> \o defaultLevels.keyvals
            \o <<S("function"), S("stdlibLoggerRedirect")>>
    /\ last.op = "stdlog"
         => LastValue(last.rec, S("function")) = S("stdlibLoggerRedirect")

\* a redirected record after AddDefaultKeyvals supplied a function key
C9_Witness ==
    /\ last.op = "stdlog"
    /\ LastValue(defaultLevels.keyvals, S("function")) = S("f")

\* the depth at which the caller and function keyvals of the last LogError
\* record resolve, and the keyvals around them
LogErrorBase == 2 + Len(Entry(last.src).lv.keyvals)
LogErrorShape(depth) ==
    /\ SubSeq(last.rec, 1, 2) = <<S("level"), S("error")>>
    /\ SubSeq(last.rec, 3, LogErrorBase) = ShownAll(Entry(last.src).lv.keyvals)
    /\ SubSeq(last.rec, LogErrorBase + 1, LogErrorBase + 4) =
         << S("caller"), [kind |-> "frame", name |-> "caller", depth |-> depth],
            S("function"), [kind |-> "frame", name |-> "function", depth |-> depth] >>
    /\ SubSeq(last.rec, LogErrorBase + 5, LogErrorBase + 4 + Len(last.kv)) = last.kv
    /\ SubSeq(last.rec, Len(last.rec) - 1, Len(last.rec)) = <<S("err"), E(last.err)>>

\* C10 (as stated): both LogError entry points bind their keyvals with
\* WithCustomDepth at nominal depth + 1, select Error and write one record
\* with the keyvals and the error under "err".
C10_BothAtNominalPlusOne ==
    last.op \in LogErrorOps => LogErrorShape(NominalStackDepth + 1)

\* C10 (amended): the package-level LogError binds at nominal depth + 1 and
\* the LogError method of a Leveler at nominal depth + 2; both select Error
\* and write one record with the keyvals and the error under "err".
C10_DepthPerEntryPoint ==
    /\ last.op = "LogError" => LogErrorShape(NominalStackDepth + 1)
    /\ last.op = "levels.LogError" => LogErrorShape(NominalStackDepth + 2)

\* the LogError method has logged an error and a pair of keyvals through a
\* Leveler a caller holds
C10_Witness ==
    /\ last.op = "levels.LogError"
    /\ last.kv = <<S("k"), S("v")>>
    /\ last.err = "e2"

====
